---- MODULE Spec2Model ----
(***************************************************************************)
(* Model of github.com/mrsoftware/errors: the supervised WaitGroup         *)
(* (waitGroup.go) on top of the MultiError aggregator (multi.go).          *)
(*                                                                         *)
(* A client goroutine ("main") launches tasks, either with Add(1) and a    *)
(* goroutine that calls Done(err), or with Do(ctx, f).  Waiter goroutines  *)
(* call Wait(), other goroutines call Stop(err).  Every statement of a     *)
(* method that touches shared state is one step, so that the interleavings *)
(* of the goroutines are the interleavings of the code.                    *)
(*                                                                         *)
(* The second half models the library used directly: goroutines that call  *)
(* SafeAdd and SafeLen on one MultiError, a sequential client of           *)
(* MultiError (Add, Err, Error, Is, As), and a client that builds error    *)
(* chains with New, Wrap, Wrapf, Errorf and reads them with Error() and    *)
(* Cause.  Error values are records that carry the id of their allocation, *)
(* so that equality is the identity of Go pointers.                        *)
(***************************************************************************)
EXTENDS Integers, Sequences, FiniteSets, TLC

\* ------------------------------------------------------------------ bounds
MaxTasks == 2      \* tasks launched per round
MaxWaiters == 2    \* goroutines that may call Wait in a round
MaxStoppers == 1   \* goroutines that call Stop directly
MaxRounds == 2     \* Add/Done/Wait rounds on the same WaitGroup
MaxLimit == 1      \* largest TaskLimit option tried
MaxExtraDone == 1  \* unmatched Done calls the misusing client makes
MaxProducers == 2  \* goroutines that call SafeAdd on one MultiError
MaxObservers == 1  \* goroutines that call SafeLen on it meanwhile
MaxSeeds == 1      \* arguments given to NewMultiError
MaxCalls == 3      \* arguments given to NewMultiError, Add and SafeAdd together
MaxDepth == 4      \* errors in the longest chain the client builds

Tasks == 1..MaxTasks
Waiters == 1..MaxWaiters
Stoppers == 1..MaxStoppers
Producers == 1..MaxProducers
Observers == 1..MaxObservers

\* ------------------------------------------------------------ error values
Nil == "nil"                 \* the nil error
Canceled == "context.Canceled"
MultiRef == "&g.errors"      \* the pointer Wait returns
StopErr == "stop error"      \* the error a direct Stop call passes
ErrorNames == <<"error 1", "error 2", "error 3", "error 4", "error 5">>
TaskErr(t) == ErrorNames[t]  \* the error task t's body may return
TaskErrs == {TaskErr(t) : t \in Tasks}
ErrValues == TaskErrs \cup {Canceled}

VARIABLES
    options,      \* g.options: TaskLimit, StopOnError
    counter,      \* the counter of options.Wg
    errors,       \* g.errors.errors, the slice of the owned MultiError
    gch,          \* number of elements in the channel g.gch
    ctx,          \* g.ctx: done, and the cause cancel was given
    cancelOnce,   \* g.cancelOnce has run
    cancelCalls,  \* number of calls of g.cancel
    panicked,     \* a goroutine panicked
    mpc,          \* main: "launch", or "do_add" inside Do
    next,         \* the next task main launches
    tpc,          \* per task: position in its body / in Done
    tslot,        \* per task: Do took a slot of the gate for it
    terr,         \* per task: the error passed to Done
    tbuf,         \* per task: the slice header append read
    wpc,          \* per waiter: position in Wait
    wres,         \* per waiter: the named result err of Wait
    spc,          \* per stopper: "idle", or the error it called Stop with
    round,        \* the current round
    extraDone,    \* unmatched Done calls made so far
    merrors,      \* m.errors, the slice of a MultiError the client made itself
    mx,           \* m.mx: 0 when unlocked, else the goroutine that holds it
    ppc,          \* per producer goroutine: position in SafeAdd
    parg,         \* per producer goroutine: the argument of its SafeAdd
    pbuf,         \* per producer goroutine: the slice header append read
    opc,          \* per observer goroutine: position in SafeLen or Unwrap
    oseen,        \* per observer goroutine: what its SafeLen returned
    calls,        \* the arguments given to NewMultiError, Add, SafeAdd, AddFields so far
    cur,          \* the error value the sequential client holds
    ret           \* the last call of the client, its position in it, its result

\* The state of the WaitGroup program.
wgVars == <<options, counter, errors, gch, ctx, cancelOnce, cancelCalls, panicked,
            mpc, next, tpc, tslot, terr, tbuf, wpc, wres, spc, round,
            extraDone>>

\* The state of the programs that use MultiError and the error chains directly.
libVars == <<merrors, mx, ppc, parg, pbuf, opc, oseen, calls, cur, ret>>

vars == <<options, counter, errors, gch, ctx, cancelOnce, cancelCalls, panicked,
          mpc, next, tpc, tslot, terr, tbuf, wpc, wres, spc, round,
          extraDone, merrors, mx, ppc, parg, pbuf, opc, oseen, calls, cur, ret>>

\* ------------------------------------------- error values of the library
\* The programs that use the library directly work on error values with an
\* identity (Go pointers): every value carries the id of its allocation.
NoErr == [kind |-> "nil"]    \* the nil error

\* stdErr.New(text): a foreign leaf error, without Unwrap.
ErrorString(id, text) == [kind |-> "errorString", id |-> id, msg |-> text]

\* New(msg, fields...): &Error{msg: msg, fields: fields}
New(id, msg, fields) ==
    [kind |-> "Error", id |-> id, msg |-> msg, cause |-> NoErr, fields |-> fields]

\* Wrap(cause, msg, fields...): &Error{cause: cause, msg: msg, fields: fields}
Wrap(id, cause, msg, fields) ==
    [kind |-> "Error", id |-> id, msg |-> msg, cause |-> cause, fields |-> fields]

\* fmt.Errorf("...: %w", cause): a foreign error with the formatted text
\* `text` and an Unwrap method that gives the cause.
WrapError(id, text, cause) ==
    [kind |-> "wrapError", id |-> id, msg |-> text, cause |-> cause]

\* The *MultiError m the client made with NewMultiError.
MultiPtr == [kind |-> "MultiError", id |-> 0]

\* No MultiError and no error chain is in use.
LibIdle ==
    /\ merrors = <<>>
    /\ mx = 0
    /\ ppc = [p \in Producers |-> "idle"]
    /\ parg = [p \in Producers |-> NoErr]
    /\ pbuf = [p \in Producers |-> <<>>]
    /\ opc = [o \in Observers |-> "idle"]
    /\ oseen = [o \in Observers |-> [len |-> 0, appended |-> 0]]
    /\ calls = <<>>
    /\ cur = NoErr
    /\ ret = [op |-> "none"]

\* ------------------------------------------------------------- MultiError
\* MultiError.Len
MultiLen(errs) == Len(errs)

\* MultiError.Add: nil is ignored, anything else is appended.  The append
\* works on the slice header `base` the caller read.
MultiAdd(base, err) == IF err = Nil THEN base ELSE Append(base, err)

Count(s, e) == Cardinality({i \in DOMAIN s : s[i] = e})

\* --------------------------------------------------------- sync.WaitGroup
\* Faulty variant: a counter that would go negative is clamped at zero.
WgAddClamped(c, delta) == IF c + delta < 0 THEN 0 ELSE c + delta

\* Add(delta) and Done (Add(-1)) on the counter of options.Wg.
WgAdd(c, delta) == c + delta

\* sync.WaitGroup panics with "sync: negative WaitGroup counter".
NegativeCounter(c) == c < 0

\* ------------------------------------------------------------------- Init
Init ==
    /\ options \in [TaskLimit : 0..MaxLimit, StopOnError : BOOLEAN]
    /\ counter = 0
    /\ errors = <<>>
    /\ gch = 0
    /\ ctx = [done |-> FALSE, cause |-> Nil]
    /\ cancelOnce = FALSE
    /\ cancelCalls = 0
    /\ panicked = FALSE
    /\ mpc = "launch"
    /\ next = 1
    /\ tpc = [t \in Tasks |-> "idle"]
    /\ tslot = [t \in Tasks |-> FALSE]
    /\ terr = [t \in Tasks |-> Nil]
    /\ tbuf = [t \in Tasks |-> <<>>]
    /\ wpc = [w \in Waiters |-> "idle"]
    /\ wres = [w \in Waiters |-> Nil]
    /\ spc = [s \in Stoppers |-> "idle"]
    /\ round = 1
    /\ extraDone = 0
    /\ LibIdle

\* ------------------------------------------------------- context and Stop
\* The cancel function of context.WithCancelCause: the first call cancels the
\* context and records the cause it was given, later calls change nothing.
CtxCancel(c, err) == IF c.done THEN c ELSE [done |-> TRUE, cause |-> err]

\* Faulty variant: the function runs at every call.
OnceRunsAlways(done) == TRUE

\* sync.Once.Do runs its function only if it has not run before.
OnceRuns(done) == ~done

\* WaitGroup.Stop: g.cancelOnce.Do(func() { g.cancel(err) }).  sync.Once holds
\* its mutex while the function runs, so the whole call is one step.
Stop(err) ==
    IF OnceRuns(cancelOnce)
    THEN /\ cancelOnce' = TRUE
         /\ cancelCalls' = cancelCalls + 1
         /\ ctx' = CtxCancel(ctx, err)
    ELSE UNCHANGED <<cancelOnce, cancelCalls, ctx>>

\* A goroutine other than the tasks and the waiters calls Stop(err).  These
\* goroutines are interchangeable, so they call in the order of their numbers.
StopCall(s) ==
    /\ ~panicked
    /\ spc[s] = "idle"
    /\ IF s = 1 THEN TRUE ELSE spc[s - 1] # "idle"
    /\ \E err \in {Nil, StopErr} :
          /\ Stop(err)
          /\ spc' = [spc EXCEPT ![s] = err]
    /\ UNCHANGED libVars
    /\ UNCHANGED <<options, counter, errors, gch, panicked, mpc, next, tpc, tslot,
                   terr, tbuf, wpc, wres, round, extraDone>>

\* -------------------------------------------------------------- Add, Do
\* The client makes the Add calls of a round before the Wait calls, as
\* sync.WaitGroup asks.
NoWaitYet == \A w \in Waiters : wpc[w] = "idle"

\* main: wg.Add(1); go func() { ...; wg.Done(err) }()
AddGo ==
    /\ ~panicked
    /\ mpc = "launch"
    /\ next <= MaxTasks
    /\ NoWaitYet
    /\ counter' = WgAdd(counter, 1)
    /\ tpc' = [tpc EXCEPT ![next] = "body"]
    /\ next' = next + 1
    /\ UNCHANGED libVars
    /\ UNCHANGED <<options, errors, gch, ctx, cancelOnce, cancelCalls, panicked, mpc,
                   tslot, terr, tbuf, wpc, wres, spc, round, extraDone>>

\* Faulty variant: the send never blocks.
GateAlwaysOpen(len, cap) == TRUE

\* The send g.gch <- struct{}{} can proceed: the channel is not full.
GateHasRoom(len, cap) == len < cap

\* Do, first part: if g.gch != nil { g.gch <- struct{}{} }.  gch is nil when
\* TaskLimit is 0; the send blocks while the channel is full.
DoAcquire ==
    /\ ~panicked
    /\ mpc = "launch"
    /\ next <= MaxTasks
    /\ NoWaitYet
    /\ IF options.TaskLimit > 0
       THEN /\ GateHasRoom(gch, options.TaskLimit)
            /\ gch' = gch + 1
            /\ tslot' = [tslot EXCEPT ![next] = TRUE]
       ELSE UNCHANGED <<gch, tslot>>
    /\ mpc' = "do_add"
    /\ UNCHANGED libVars
    /\ UNCHANGED <<options, counter, errors, ctx, cancelOnce, cancelCalls, panicked,
                   next, tpc, terr, tbuf, wpc, wres, spc, round, extraDone>>

\* Do, second part: g.Add(1), then the task runner (go task()) gets the task.
DoDispatch ==
    /\ ~panicked
    /\ mpc = "do_add"
    /\ counter' = WgAdd(counter, 1)
    /\ tpc' = [tpc EXCEPT ![next] = "body"]
    /\ next' = next + 1
    /\ mpc' = "launch"
    /\ UNCHANGED libVars
    /\ UNCHANGED <<options, errors, gch, ctx, cancelOnce, cancelCalls, panicked,
                   tslot, terr, tbuf, wpc, wres, spc, round, extraDone>>

\* ------------------------------------------------------------------ Done
\* What the body of task t can return: nil, its own error, or ctx.Err() once
\* the WaitGroup's context is cancelled (the body has it from wg.Context(), or
\* from Do, which passes g.ctx when its ctx argument is nil).
BodyResults(t) ==
    {Nil, TaskErr(t)} \cup (IF ctx.done THEN {Canceled} ELSE {})

\* Faulty variant: the task never gives its slot back.
AfterDoneNoRelease(t) == "finished"

\* Where a task goes once Done has returned: the task Do dispatched gives its
\* slot back, if g.gch != nil.
AfterDone(t) == IF tslot[t] THEN "release" ELSE "finished"

\* Where Done goes after g.options.Wg.Done().
AfterWgDone(t, err) ==
    IF err = Nil THEN AfterDone(t)
    ELSE IF options.StopOnError THEN "stop" ELSE "add_read"

\* Faulty variant: only one of the blocked waiters is woken.
WakeOne(c) ==
    [w \in Waiters |->
        IF c = 0 /\ wpc[w] = "blocked" /\ \A v \in 1..(w - 1) : wpc[v] # "blocked"
        THEN "released" ELSE wpc[w]]

\* Faulty variant: the waiters are woken one unit too early.
WakeEarly(c) ==
    [w \in Waiters |-> IF c <= 1 /\ wpc[w] = "blocked" THEN "released" ELSE wpc[w]]

\* sync.WaitGroup: the decrement that brings the counter to zero wakes every
\* goroutine blocked in Wait.
Wake(c) ==
    [w \in Waiters |-> IF c = 0 /\ wpc[w] = "blocked" THEN "released" ELSE wpc[w]]

\* Done(err), first statement: g.options.Wg.Done().  A negative counter panics.
\* The body of the task returns one of `results`.
DoneWgWith(t, results) ==
    /\ ~panicked
    /\ tpc[t] = "body"
    /\ \E err \in results :
          /\ counter' = WgAdd(counter, -1)
          /\ IF NegativeCounter(counter')
             THEN /\ panicked' = TRUE
                  /\ UNCHANGED <<tpc, wpc, terr>>
             ELSE /\ panicked' = FALSE
                  /\ terr' = [terr EXCEPT ![t] = err]
                  /\ tpc' = [tpc EXCEPT ![t] = AfterWgDone(t, err)]
                  /\ wpc' = Wake(counter')
    /\ UNCHANGED libVars
    /\ UNCHANGED <<options, errors, gch, ctx, cancelOnce, cancelCalls, mpc, next,
                   tslot, tbuf, wres, spc, round, extraDone>>

DoneWg(t) == DoneWgWith(t, BodyResults(t))

\* A task that never fails: Done(nil).
DoneNil(t) == DoneWgWith(t, {Nil})

\* Done(err), err # nil and StopOnError: g.Stop(err).
DoneStop(t) ==
    /\ ~panicked
    /\ tpc[t] = "stop"
    /\ Stop(terr[t])
    /\ tpc' = [tpc EXCEPT ![t] = "add_read"]
    /\ UNCHANGED libVars
    /\ UNCHANGED <<options, counter, errors, gch, panicked, mpc, next, tslot,
                   terr, tbuf, wpc, wres, spc, round, extraDone>>

\* Done(err), g.errors.Add(err): append reads the slice header ...
DoneAddRead(t) ==
    /\ ~panicked
    /\ tpc[t] = "add_read"
    /\ tbuf' = [tbuf EXCEPT ![t] = errors]
    /\ tpc' = [tpc EXCEPT ![t] = "add_write"]
    /\ UNCHANGED libVars
    /\ UNCHANGED <<options, counter, errors, gch, ctx, cancelOnce, cancelCalls,
                   panicked, mpc, next, tslot, terr, wpc, wres, spc, round,
                   extraDone>>

\* ... and stores the header of the longer slice.  No lock is held in between.
DoneAddWrite(t) ==
    /\ ~panicked
    /\ tpc[t] = "add_write"
    /\ errors' = MultiAdd(tbuf[t], terr[t])
    /\ tbuf' = [tbuf EXCEPT ![t] = <<>>]
    /\ tpc' = [tpc EXCEPT ![t] = AfterDone(t)]
    /\ UNCHANGED libVars
    /\ UNCHANGED <<options, counter, gch, ctx, cancelOnce, cancelCalls, panicked,
                   mpc, next, tslot, terr, wpc, wres, spc, round, extraDone>>

\* The task Do dispatched, after g.Done: if g.gch != nil { <-g.gch }.
DoRelease(t) ==
    /\ ~panicked
    /\ tpc[t] = "release"
    /\ gch > 0
    /\ gch' = gch - 1
    /\ tslot' = [tslot EXCEPT ![t] = FALSE]
    /\ tpc' = [tpc EXCEPT ![t] = "finished"]
    /\ UNCHANGED libVars
    /\ UNCHANGED <<options, counter, errors, ctx, cancelOnce, cancelCalls, panicked,
                   mpc, next, terr, tbuf, wpc, wres, spc, round, extraDone>>

\* ------------------------------------------------------------------ Wait
\* Wait, g.options.Wg.Wait(): returns at once when the counter is zero,
\* blocks otherwise.  Wait is called once main has made its Add and Do calls
\* (at least one); the waiters are interchangeable, so they call in the order
\* of their numbers.
WaitCall(w) ==
    /\ ~panicked
    /\ mpc = "launch"
    /\ next > 1
    /\ wpc[w] = "idle"
    /\ IF w = 1 THEN TRUE ELSE wpc[w - 1] # "idle"
    /\ wpc' = [wpc EXCEPT ![w] = IF counter = 0 THEN "released" ELSE "blocked"]
    /\ UNCHANGED libVars
    /\ UNCHANGED <<options, counter, errors, gch, ctx, cancelOnce, cancelCalls,
                   panicked, mpc, next, tpc, tslot, terr, tbuf, wres, spc,
                   round, extraDone>>

\* Faulty variant: Wait returns &g.errors without looking at its length.
WaitResultAlways(errs) == MultiRef

\* The value Wait returns: nil for an empty MultiError, &g.errors otherwise.
WaitResult(errs) == IF MultiLen(errs) = 0 THEN Nil ELSE MultiRef

\* Wait, after the barrier: if g.errors.Len() == 0 { return nil }; return &g.errors
WaitLen(w) ==
    /\ ~panicked
    /\ wpc[w] = "released"
    /\ wres' = [wres EXCEPT ![w] = WaitResult(errors)]
    /\ wpc' = [wpc EXCEPT ![w] = "deferred"]
    /\ UNCHANGED libVars
    /\ UNCHANGED <<options, counter, errors, gch, ctx, cancelOnce, cancelCalls,
                   panicked, mpc, next, tpc, tslot, terr, tbuf, spc, round,
                   extraDone>>

\* Faulty variant: the deferred call passes nil.
WaitDeferredNil(err) == Nil

\* What the deferred call passes to Stop: the named result err of Wait, which
\* the return statement has set by then.
WaitDeferredArg(err) == err

\* Wait, the deferred func() { g.Stop(err) }().
WaitStop(w) ==
    /\ ~panicked
    /\ wpc[w] = "deferred"
    /\ Stop(WaitDeferredArg(wres[w]))
    /\ wpc' = [wpc EXCEPT ![w] = "returned"]
    /\ UNCHANGED libVars
    /\ UNCHANGED <<options, counter, errors, gch, panicked, mpc, next, tpc, tslot,
                   terr, tbuf, wres, spc, round, extraDone>>

\* ----------------------------------------------------------- the client
\* Every task of the round has finished and every Wait has returned: the
\* client uses the same WaitGroup for another round.
NewRound ==
    /\ ~panicked
    /\ mpc = "launch"
    /\ round < MaxRounds
    /\ \A t \in Tasks : tpc[t] \in {"idle", "finished"}
    /\ \A w \in Waiters : wpc[w] \in {"idle", "returned"}
    /\ \E w \in Waiters : wpc[w] = "returned"
    /\ round' = round + 1
    /\ next' = 1
    /\ tpc' = [t \in Tasks |-> "idle"]
    /\ terr' = [t \in Tasks |-> Nil]
    /\ wpc' = [w \in Waiters |-> "idle"]
    /\ wres' = [w \in Waiters |-> Nil]
    /\ UNCHANGED libVars
    /\ UNCHANGED <<options, counter, errors, gch, ctx, cancelOnce, cancelCalls,
                   panicked, mpc, tslot, tbuf, spc, extraDone>>

\* Misuse: after its Add calls the client calls Done(nil) once more than Add.
ExtraDone ==
    /\ ~panicked
    /\ mpc = "launch"
    /\ next > 1
    /\ extraDone < MaxExtraDone
    /\ extraDone' = extraDone + 1
    /\ counter' = WgAdd(counter, -1)
    /\ IF NegativeCounter(counter')
       THEN panicked' = TRUE /\ wpc' = wpc
       ELSE panicked' = FALSE /\ wpc' = Wake(counter')
    /\ UNCHANGED libVars
    /\ UNCHANGED <<options, errors, gch, ctx, cancelOnce, cancelCalls, mpc, next,
                   tpc, tslot, terr, tbuf, wres, spc, round>>

\* ------------------------------------------------------------------ Next
\* One round of Add/Do, Done and Wait.
Next ==
    \/ AddGo
    \/ DoAcquire
    \/ DoDispatch
    \/ \E t \in Tasks : DoneWg(t)
    \/ \E t \in Tasks : DoneStop(t)
    \/ \E t \in Tasks : DoneAddRead(t)
    \/ \E t \in Tasks : DoneAddWrite(t)
    \/ \E t \in Tasks : DoRelease(t)
    \/ \E w \in Waiters : WaitCall(w)
    \/ \E w \in Waiters : WaitLen(w)
    \/ \E w \in Waiters : WaitStop(w)

Spec == Init /\ [][Next]_vars

\* Every task is launched with Do.
NextDo ==
    \/ DoAcquire
    \/ DoDispatch
    \/ \E t \in Tasks : DoneWg(t)
    \/ \E t \in Tasks : DoneStop(t)
    \/ \E t \in Tasks : DoneAddRead(t)
    \/ \E t \in Tasks : DoneAddWrite(t)
    \/ \E t \in Tasks : DoRelease(t)
    \/ \E w \in Waiters : WaitCall(w)
    \/ \E w \in Waiters : WaitLen(w)
    \/ \E w \in Waiters : WaitStop(w)

SpecDo == Init /\ [][NextDo]_vars

\* No task limit, every task launched with Add and a goroutine.
InitGo == Init /\ options.TaskLimit = 0

NextGo ==
    \/ AddGo
    \/ \E t \in Tasks : DoneWg(t)
    \/ \E t \in Tasks : DoneStop(t)
    \/ \E t \in Tasks : DoneAddRead(t)
    \/ \E t \in Tasks : DoneAddWrite(t)
    \/ \E w \in Waiters : WaitCall(w)
    \/ \E w \in Waiters : WaitLen(w)
    \/ \E w \in Waiters : WaitStop(w)

\* ... with goroutines that call Stop directly.
NextStop == NextGo \/ \E s \in Stoppers : StopCall(s)

SpecStop == InitGo /\ [][NextStop]_vars

\* ... with a client that calls Done too often.
NextMisuse == NextGo \/ ExtraDone

SpecMisuse == InitGo /\ [][NextMisuse]_vars

\* A client that uses the WaitGroup for several rounds of tasks that call
\* Done(nil).  The Go scheduler lets every goroutine that can run its next
\* statement run it.
NextReuse ==
    \/ AddGo
    \/ \E t \in Tasks : DoneNil(t)
    \/ \E w \in Waiters : WaitCall(w)
    \/ \E w \in Waiters : WaitLen(w)
    \/ \E w \in Waiters : WaitStop(w)
    \/ NewRound

Fairness ==
    /\ \A t \in Tasks : WF_vars(DoneNil(t))
    /\ \A w \in Waiters : WF_vars(WaitLen(w) \/ WaitStop(w))

SpecReuse == InitGo /\ [][NextReuse]_vars /\ Fairness

\* ================================================================ claims
\* Task t has made its Done call: g.options.Wg.Done() has run.
DoneCalled(t) == tpc[t] \notin {"idle", "body"}

\* The Done call of task t has returned.
DoneReturned(t) == tpc[t] \in {"release", "finished"}

\* Wait has returned to waiter w (with wres[w]).
Returned(w) == wpc[w] = "returned"

\* How many Done calls were given the error e.
PassedCount(e) == Cardinality({t \in Tasks : DoneCalled(t) /\ terr[t] = e})

\* C1: when every Done call matched to the Add calls was Done(nil), Wait
\* returns nil, whatever the interleaving of the Done calls and of Wait.
C1_WaitNilAfterDoneNil ==
    \A w \in Waiters :
        (Returned(w) /\ \A t \in Tasks : DoneCalled(t) => terr[t] = Nil)
            => wres[w] = Nil

\* Both tasks called Done(nil) and a Wait that had to block returned nil.
C1_Witness ==
    /\ next > MaxTasks
    /\ \A t \in Tasks : tpc[t] = "finished" /\ terr[t] = Nil
    /\ \E w \in Waiters : Returned(w) /\ wres[w] = Nil

\* C2: when k > 0 of the Done calls matched to the Add calls pass a non-nil
\* error, Wait returns the owned MultiError and its members are exactly those
\* k errors: none missing, none extra, none twice.
C2_WaitReturnsThePassedErrors ==
    \A w \in Waiters :
        (Returned(w) /\ \E t \in Tasks : DoneCalled(t) /\ terr[t] # Nil)
            => /\ wres[w] = MultiRef
               /\ \A e \in ErrValues : Count(errors, e) = PassedCount(e)

\* C3: while the pending count is above zero no caller of Wait is past the
\* barrier, cancelled context or not.
C3_NoReleaseWhilePending ==
    counter > 0 => \A w \in Waiters : wpc[w] \in {"idle", "blocked"}

\* The context is cancelled, a task has not called Done yet, and a caller of
\* Wait is still blocked.
C3_Witness ==
    /\ ctx.done
    /\ counter > 0
    /\ \E t \in Tasks : tpc[t] = "body"
    /\ \E w \in Waiters : wpc[w] = "blocked"

\* C4: under fair scheduling every caller blocked in Wait is released and
\* returns once the Done calls have brought the pending count to zero (no
\* caller stays blocked at zero), in every round of use of the same WaitGroup.
C4_BlockedWaitersReleased ==
    /\ [](counter = 0 => \A w \in Waiters : wpc[w] # "blocked")
    /\ \A w \in Waiters : (wpc[w] = "blocked") ~> Returned(w)

\* In a later round every task has called Done and every caller of Wait has
\* returned.
C4_Witness ==
    /\ round > 1
    /\ next > MaxTasks
    /\ counter = 0
    /\ \A t \in Tasks : tpc[t] = "finished"
    /\ \A w \in Waiters : Returned(w)

\* Add(1) calls made in the round (no Do in the specification of misuse).
Adds == next - 1

\* Done calls that returned or went on past g.options.Wg.Done().
Dones == Cardinality({t \in Tasks : DoneCalled(t)}) + extraDone

\* C5: a Done call beyond the outstanding Add count panics: the counter is
\* negative only in a panicked program, it is never clamped (without a panic
\* it is exactly Add calls minus Done calls), and the Done that takes it
\* below zero is the one that faults.
C5_OverDonePanics ==
    /\ counter < 0 => panicked
    /\ ~panicked => counter = Adds - Dones
    /\ panicked => counter = -1
    /\ Dones > Adds => panicked

\* Add(1), the task's Done, then a second Done, which panicked.
C5_Witness ==
    /\ panicked
    /\ next = 2
    /\ DoneCalled(1)
    /\ extraDone = 1

\* The tasks Do has handed to the runner under a task limit and that have not
\* completed: from the dispatch to the receive from g.gch.
InFlight == {t \in Tasks : tslot[t] /\ tpc[t] \notin {"idle", "finished"}}

\* C6: with a task limit L > 0 at most L tasks dispatched by Do are in flight
\* and the gate never holds more than L; while L are in flight the gate is
\* full and the next Do cannot take a slot, so it dispatches nothing.
C6_TaskLimitBoundsInFlight ==
    options.TaskLimit > 0 =>
        /\ Cardinality(InFlight) <= options.TaskLimit
        /\ gch <= options.TaskLimit
        /\ Cardinality(InFlight) = options.TaskLimit =>
              /\ gch = options.TaskLimit
              /\ ~ENABLED DoAcquire
              /\ mpc = "launch"

\* L tasks are in flight and main has a further task to launch: only the
\* full gate keeps its Do from going on.
C6_Witness ==
    /\ options.TaskLimit > 0
    /\ Cardinality(InFlight) = options.TaskLimit
    /\ mpc = "launch"
    /\ next <= MaxTasks
    /\ NoWaitYet
    /\ ~ENABLED DoAcquire

\* The step is a call Stop(c): by Done, by the deferred call of Wait, or by a
\* goroutine that calls Stop itself.
StopStepWith(c) ==
    \/ \E t \in Tasks : tpc[t] = "stop" /\ tpc'[t] # "stop" /\ c = terr[t]
    \/ \E w \in Waiters : wpc[w] = "deferred" /\ Returned(w)' /\ c = wres[w]
    \/ \E s \in Stoppers : spc[s] = "idle" /\ spc'[s] # "idle" /\ c = spc'[s]

\* C7: however many calls of Stop are made, by Done, by Wait and by other
\* goroutines, the cancel function is called exactly once, the cause is the
\* argument of the call that ran it, and no later call changes the cancelled
\* state or the cause.
C7_StopSingleFire ==
    /\ [](/\ cancelCalls <= 1
          /\ cancelOnce <=> cancelCalls = 1
          /\ ctx.done <=> cancelOnce)
    /\ [][/\ cancelOnce => cancelOnce' /\ ctx' = ctx /\ cancelCalls' = cancelCalls
          /\ ~cancelOnce /\ cancelOnce' => ctx'.done /\ StopStepWith(ctx'.cause)]_vars

\* Done, Wait and another goroutine have all called Stop, with different
\* arguments, and cancel was called once.
C7_Witness ==
    /\ options.StopOnError
    /\ cancelCalls = 1
    /\ \E s \in Stoppers : spc[s] = StopErr
    /\ \E w \in Waiters : Returned(w)
    /\ \E t \in Tasks : DoneReturned(t) /\ terr[t] # Nil

\* The step is the deferred Stop of a Wait call, and it is the call of Stop
\* that runs cancel.
WaitFires(w) == wpc[w] = "deferred" /\ Returned(w)' /\ ~cancelOnce /\ cancelOnce'

\* C8 as stated: the context is cancelled whenever Wait has returned, and the
\* cancellation that Wait fires carries the cause nil.
C8_WaitFiresNilCause ==
    /\ [](\A w \in Waiters : Returned(w) => ctx.done)
    /\ [][\A w \in Waiters : WaitFires(w) => ctx'.cause = Nil]_vars

\* C8, amended: the context is cancelled whenever Wait has returned, and the
\* cancellation that Wait fires carries the value this Wait call returns: nil
\* when it returns nil, the aggregate when it returns the aggregate.
C8_WaitFiresItsResult ==
    /\ [](\A w \in Waiters : Returned(w) => ctx.done)
    /\ [][\A w \in Waiters : WaitFires(w) => ctx'.cause = wres'[w]]_vars

\* Without stop-on-error a Wait call returned the aggregate and fired the
\* cancellation with it; another returned nil with the context cancelled.
C8_Witness ==
    /\ ~options.StopOnError
    /\ \A s \in Stoppers : spc[s] = "idle"
    /\ ctx.done
    /\ ctx.cause = MultiRef
    /\ \E w \in Waiters : Returned(w) /\ wres[w] = MultiRef

\* C9: with stop-on-error, once a Done call with a non-nil error has returned
\* the context is cancelled, and the cause of the cancellation is an error
\* that was passed to Done, never nil.
C9_StopOnErrorCauseIsDoneError ==
    (options.StopOnError /\ \E t \in Tasks : DoneReturned(t) /\ terr[t] # Nil)
        => /\ ctx.done
           /\ \E t \in Tasks : DoneCalled(t) /\ terr[t] # Nil /\ ctx.cause = terr[t]

\* C10: with stop-on-error and two tasks launched with Do, one returning its
\* error e and the other returning the context's error once the context is
\* cancelled, Wait returns the aggregate and its members are exactly e and the
\* cancellation error.
C10_CancelErrorAggregated ==
    \A a, b \in Tasks :
        (/\ options.StopOnError
         /\ next = 3
         /\ DoneCalled(a) /\ terr[a] = TaskErr(a)
         /\ DoneCalled(b) /\ terr[b] = Canceled)
            => \A w \in Waiters :
                  Returned(w) => /\ wres[w] = MultiRef
                                 /\ Len(errors) = 2
                                 /\ Count(errors, TaskErr(a)) = 1
                                 /\ Count(errors, Canceled) = 1

\* The tasks Do has dispatched whose body has not returned yet.
BodiesRunning == {t \in Tasks : tpc[t] = "body"}

\* C11: Do is Add(1), dispatch, Done(f's result): the pending count is the
\* number of dispatched tasks that have not called Done, so a Wait issued
\* after m Do calls returns only when the m bodies have finished, and its
\* result reflects exactly the non-nil results of those bodies.
C11_DoIsAddDispatchDone ==
    /\ ~panicked => counter = Cardinality(BodiesRunning)
    /\ \A w \in Waiters :
          Returned(w) =>
              /\ \A t \in 1..(next - 1) : DoneCalled(t)
              /\ wres[w] = Nil <=> \A t \in Tasks : terr[t] = Nil
              /\ \A e \in ErrValues : Count(errors, e) = PassedCount(e)

\* ==================================================== MultiError, directly
\* No WaitGroup is in use: the state of a NewWaitGroup() nobody calls.
WgIdle ==
    /\ options = [TaskLimit |-> 0, StopOnError |-> FALSE]
    /\ counter = 0
    /\ errors = <<>>
    /\ gch = 0
    /\ ctx = [done |-> FALSE, cause |-> Nil]
    /\ cancelOnce = FALSE
    /\ cancelCalls = 0
    /\ panicked = FALSE
    /\ mpc = "launch"
    /\ next = 1
    /\ tpc = [t \in Tasks |-> "idle"]
    /\ tslot = [t \in Tasks |-> FALSE]
    /\ terr = [t \in Tasks |-> Nil]
    /\ tbuf = [t \in Tasks |-> <<>>]
    /\ wpc = [w \in Waiters |-> "idle"]
    /\ wres = [w \in Waiters |-> Nil]
    /\ spc = [s \in Stoppers |-> "idle"]
    /\ round = 1
    /\ extraDone = 0

\* Faulty variant: nil is appended like any error.
MultiErrorAddAny(base, err) == Append(base, err)

\* MultiError.Add on error values of the library: nil is ignored, anything
\* else is appended to the slice whose header is `base`.
MultiErrorAdd(base, err) == IF err = NoErr THEN base ELSE Append(base, err)

\* --------------------------------------------- SafeAdd, SafeLen, concurrent
\* errorList := NewMultiError(); producer goroutines call
\* errorList.SafeAdd(err) with the result of their work, which may be nil.
ProducerErr(p) == ErrorString(p, ErrorNames[p])

\* Faulty variant: Lock never blocks.
MutexIgnored(holder) == TRUE

\* m.mx.Lock() can proceed: nobody holds the mutex.
MutexFree(holder) == holder = 0

\* SafeAdd(err): m.mx.Lock()
SafeAddLock(p) ==
    /\ ppc[p] = "idle"
    /\ MutexFree(mx)
    /\ \E err \in {NoErr, ProducerErr(p)} : parg' = [parg EXCEPT ![p] = err]
    /\ mx' = p
    /\ ppc' = [ppc EXCEPT ![p] = "locked"]
    /\ UNCHANGED wgVars
    /\ UNCHANGED <<merrors, pbuf, opc, oseen, calls, cur, ret>>

\* SafeAdd(err): m.Add(err) returns at once for nil, else append reads the
\* slice header ...
SafeAddRead(p) ==
    /\ ppc[p] = "locked"
    /\ IF parg[p] = NoErr
       THEN /\ ppc' = [ppc EXCEPT ![p] = "unlock"]
            /\ pbuf' = pbuf
       ELSE /\ ppc' = [ppc EXCEPT ![p] = "append"]
            /\ pbuf' = [pbuf EXCEPT ![p] = merrors]
    /\ UNCHANGED wgVars
    /\ UNCHANGED <<merrors, mx, parg, opc, oseen, calls, cur, ret>>

\* ... and stores the header of the longer slice.
SafeAddWrite(p) ==
    /\ ppc[p] = "append"
    /\ merrors' = MultiErrorAdd(pbuf[p], parg[p])
    /\ pbuf' = [pbuf EXCEPT ![p] = <<>>]
    /\ ppc' = [ppc EXCEPT ![p] = "unlock"]
    /\ UNCHANGED wgVars
    /\ UNCHANGED <<mx, parg, opc, oseen, calls, cur, ret>>

\* SafeAdd(err): m.mx.Unlock()
SafeAddUnlock(p) ==
    /\ ppc[p] = "unlock"
    /\ mx' = 0
    /\ ppc' = [ppc EXCEPT ![p] = "returned"]
    /\ UNCHANGED wgVars
    /\ UNCHANGED <<merrors, parg, pbuf, opc, oseen, calls, cur, ret>>

\* The SafeAdd calls whose append has been stored.
Appended == {p \in Producers : ppc[p] \in {"unlock", "returned"} /\ parg[p] # NoErr}

\* SafeLen(): m.mx.Lock()
SafeLenLock(o) ==
    /\ opc[o] = "idle"
    /\ MutexFree(mx)
    /\ mx' = MaxProducers + o
    /\ opc' = [opc EXCEPT ![o] = "locked"]
    /\ UNCHANGED wgVars
    /\ UNCHANGED <<merrors, ppc, parg, pbuf, oseen, calls, cur, ret>>

\* SafeLen(): return len(m.errors), then the deferred m.mx.Unlock().  The
\* observer also notes how many appends had been stored by then.
SafeLenReturn(o) ==
    /\ opc[o] = "locked"
    /\ oseen' = [oseen EXCEPT ![o] = [len |-> Len(merrors),
                                      appended |-> Cardinality(Appended)]]
    /\ mx' = 0
    /\ opc' = [opc EXCEPT ![o] = "returned"]
    /\ UNCHANGED wgVars
    /\ UNCHANGED <<merrors, ppc, parg, pbuf, calls, cur, ret>>

InitSafe == WgIdle /\ LibIdle

NextSafe ==
    \/ \E p \in Producers : SafeAddLock(p)
    \/ \E p \in Producers : SafeAddRead(p)
    \/ \E p \in Producers : SafeAddWrite(p)
    \/ \E p \in Producers : SafeAddUnlock(p)
    \/ \E o \in Observers : SafeLenLock(o)
    \/ \E o \in Observers : SafeLenReturn(o)

SpecSafe == InitSafe /\ [][NextSafe]_vars

\* The non-nil errors the producers passed to their SafeAdd calls.
ProducedErrs == {parg[p] : p \in {q \in Producers : ppc[q] # "idle" /\ parg[q] # NoErr}}

\* C12: for every interleaving of the concurrent SafeAdd calls, once all
\* have returned SafeLen is the number n of non-nil errors passed and each of
\* them is a member exactly once; and every SafeLen call returns the number of
\* appends stored so far, never a partially appended state.
C12_SafeAddLosesNothing ==
    /\ (\A p \in Producers : ppc[p] = "returned") =>
          /\ Len(merrors) = Cardinality(ProducedErrs)
          /\ \A e \in ProducedErrs : Count(merrors, e) = 1
          /\ \A i \in DOMAIN merrors : merrors[i] \in ProducedErrs
    /\ \A o \in Observers :
          opc[o] = "returned" => oseen[o].len = oseen[o].appended

\* Every producer passed a non-nil error, all SafeAdd calls have returned, and
\* a SafeLen call in between saw some of the errors, not all.
C12_Witness ==
    /\ \A p \in Producers : ppc[p] = "returned" /\ parg[p] # NoErr
    /\ Len(merrors) = MaxProducers
    /\ \E o \in Observers :
          opc[o] = "returned" /\ oseen[o].len > 0 /\ oseen[o].len < MaxProducers

\* ------------------------------------------------- MultiError, sequential
\* The errors of the tests: two foreign errors, a contextual error, a
\* contextual error that wraps the first foreign one, and a foreign error that
\* wraps the contextual one.
Error1 == ErrorString(1, "error 1")
Error2 == ErrorString(2, "error 2")
MyError == New(3, "my error", <<>>)
Wrapper == Wrap(4, Error1, "wrapper", <<>>)
Foreign == WrapError(5, "msg: my error", MyError)
ErrPool == {Error1, Error2, MyError, Wrapper, Foreign}
ErrArgs == ErrPool \cup {NoErr}

\* The sequences of at most n arguments.
ArgSeqs(n) == UNION {[1..k -> ErrArgs] : k \in 0..n}

\* NewMultiError(errors...): multi.Add(err) for each argument, in order.
RECURSIVE NewMultiError(_)
NewMultiError(errs) ==
    IF errs = <<>> THEN <<>>
    ELSE MultiErrorAdd(NewMultiError(SubSeq(errs, 1, Len(errs) - 1)), errs[Len(errs)])

InitMulti ==
    /\ WgIdle
    /\ \E seeds \in ArgSeqs(MaxSeeds) :
          /\ merrors = NewMultiError(seeds)
          /\ calls = seeds
    /\ mx = 0
    /\ ppc = [p \in Producers |-> "idle"]
    /\ parg = [p \in Producers |-> NoErr]
    /\ pbuf = [p \in Producers |-> <<>>]
    /\ opc = [o \in Observers |-> "idle"]
    /\ oseen = [o \in Observers |-> [len |-> 0, appended |-> 0]]
    /\ cur = NoErr
    /\ ret = [op |-> "none"]

\* m.Add(err)
AddCall(err) ==
    /\ Len(calls) < MaxCalls
    /\ merrors' = MultiErrorAdd(merrors, err)
    /\ calls' = Append(calls, err)
    /\ UNCHANGED wgVars
    /\ UNCHANGED <<mx, ppc, parg, pbuf, opc, oseen, cur, ret>>

\* m.SafeAdd(err) by the only goroutine: Lock, Add, Unlock.
SafeAddCall(err) ==
    /\ Len(calls) < MaxCalls
    /\ MutexFree(mx)
    /\ merrors' = MultiErrorAdd(merrors, err)
    /\ calls' = Append(calls, err)
    /\ UNCHANGED wgVars
    /\ UNCHANGED <<mx, ppc, parg, pbuf, opc, oseen, cur, ret>>

\* ---------------------------------------------- Error, Unwrap, Is, As
\* Faulty variant: the separator is written after every member.
SeparatorAlways(index, n) == TRUE

\* MultiError.Error, inside the loop: if index < len(m.errors)-1, the
\* separator is written (index counts from 1 here).
SeparatorFollows(index, n) == index < n

defaultErrorGroupSeparator == " | "

\* Faulty variant: the cause is left out of the text.
ErrorErrorMsgOnly(msg, noCause, causeText) == msg

\* Error.Error: e.msg if e.cause == nil, else e.msg + ": " + e.cause.Error()
ErrorError(msg, noCause, causeText) ==
    IF noCause THEN msg ELSE msg \o ": " \o causeText

RECURSIVE ErrorOf(_), WriteMembers(_, _)

\* MultiError.Error, the loop from member `index` on.
WriteMembers(ms, index) ==
    IF index > Len(ms) THEN ""
    ELSE ErrorOf(ms[index])
         \o (IF SeparatorFollows(index, Len(ms)) THEN defaultErrorGroupSeparator ELSE "")
         \o WriteMembers(ms, index + 1)

\* MultiError.Error
MultiErrorError(ms) == IF MultiLen(ms) = 0 THEN "" ELSE WriteMembers(ms, 1)

\* err.Error(): errorString and wrapError give their text, *Error what
\* Error.Error makes of its message and its cause, *MultiError the joined
\* members.
ErrorOf(err) ==
    CASE err.kind = "errorString" -> err.msg
      [] err.kind = "wrapError" -> err.msg
      [] err.kind = "Error" ->
            ErrorError(err.msg, err.cause = NoErr,
                       IF err.cause = NoErr THEN "" ELSE ErrorOf(err.cause))
      [] err.kind = "MultiError" -> MultiErrorError(merrors)

\* Faulty variant: Err returns a copy of the aggregator.
MultiErrorErrCopy(ms) == IF MultiLen(ms) = 0 THEN NoErr ELSE [MultiPtr EXCEPT !.id = -1]

\* MultiError.Err: nil if m.Len() == 0, else m.
MultiErrorErr(ms) == IF MultiLen(ms) = 0 THEN NoErr ELSE MultiPtr

\* Faulty variant: Unwrap gives the last member.
MultiErrorUnwrapLast(ms) == IF Len(ms) = 0 THEN NoErr ELSE ms[Len(ms)]

\* MultiError.Unwrap: nil for an empty list, else m.errors[0].
MultiErrorUnwrap(ms) == IF Len(ms) = 0 THEN NoErr ELSE ms[1]

\* The error has a method Unwrap() error: *Error, *MultiError and the
\* wrapError of fmt.Errorf have, the errorString of the standard library has
\* not.
HasUnwrap(err) == err.kind \in {"Error", "wrapError", "MultiError"}

\* err.Unwrap()
UnwrapOf(err) ==
    IF err.kind = "MultiError" THEN MultiErrorUnwrap(merrors) ELSE err.cause

RECURSIVE StdIs(_, _), IsWalk(_, _), MultiErrorIs(_)

\* MultiError.Is(err): errors.Is(err, m.errors[i]) for some i.
MultiErrorIs(err) == \E i \in DOMAIN merrors : StdIs(err, merrors[i])

\* The loop of the standard errors.Is: err == target, or err has an Is method
\* that accepts the target, else go on with err.Unwrap() until it is nil.
IsWalk(err, target) ==
    IF err = target THEN TRUE
    ELSE IF err.kind = "MultiError" /\ MultiErrorIs(target) THEN TRUE
    ELSE IF ~HasUnwrap(err) THEN FALSE
    ELSE IF UnwrapOf(err) = NoErr THEN FALSE
    ELSE IsWalk(UnwrapOf(err), target)

\* The standard errors.Is.
StdIs(err, target) ==
    IF err = NoErr \/ target = NoErr THEN err = target ELSE IsWalk(err, target)

\* Is(err, target): stdErr.Is(err, target)
Is(err, target) == StdIs(err, target)

RECURSIVE AsWalk(_, _)

\* The loop of the standard errors.As: the first error of the chain whose type
\* is the requested one is bound to the target; no error of this package has
\* an As method.
AsWalk(err, type) ==
    IF err.kind = type THEN [ok |-> TRUE, target |-> err]
    ELSE IF ~HasUnwrap(err) THEN [ok |-> FALSE, target |-> NoErr]
    ELSE IF UnwrapOf(err) = NoErr THEN [ok |-> FALSE, target |-> NoErr]
    ELSE AsWalk(UnwrapOf(err), type)

\* The standard errors.As, for a target of type `type`.
StdAs(err, type) ==
    IF err = NoErr THEN [ok |-> FALSE, target |-> NoErr] ELSE AsWalk(err, type)

\* As(err, target): stdErr.As(err, target)
As(err, type) == StdAs(err, type)

\* The client calls m.Err(), m.Error(), Is(m, target), As(m, &myErr) with
\* myErr of type *Error, and keeps the result.
ErrCall ==
    /\ ret' = [op |-> "Err", arg |-> NoErr, at |-> merrors,
               val |-> MultiErrorErr(merrors)]
    /\ UNCHANGED wgVars
    /\ UNCHANGED <<merrors, mx, ppc, parg, pbuf, opc, oseen, calls, cur>>

ErrorCall ==
    /\ ret' = [op |-> "Error", arg |-> NoErr, at |-> merrors,
               val |-> ErrorOf(MultiPtr)]
    /\ UNCHANGED wgVars
    /\ UNCHANGED <<merrors, mx, ppc, parg, pbuf, opc, oseen, calls, cur>>

IsCall(target) ==
    /\ ret' = [op |-> "Is", arg |-> target, at |-> merrors,
               val |-> Is(MultiPtr, target)]
    /\ UNCHANGED wgVars
    /\ UNCHANGED <<merrors, mx, ppc, parg, pbuf, opc, oseen, calls, cur>>

AsCall ==
    /\ ret' = [op |-> "As", arg |-> NoErr, at |-> merrors,
               val |-> As(MultiPtr, "Error")]
    /\ UNCHANGED wgVars
    /\ UNCHANGED <<merrors, mx, ppc, parg, pbuf, opc, oseen, calls, cur>>

NextMulti ==
    \/ \E err \in ErrArgs : AddCall(err)
    \/ \E err \in ErrArgs : SafeAddCall(err)
    \/ ErrCall
    \/ ErrorCall
    \/ \E target \in ErrArgs : IsCall(target)
    \/ AsCall

SpecMulti == InitMulti /\ [][NextMulti]_vars

\* The argument is not nil.
NotNil(err) == err # NoErr

\* C13: a MultiError never has a nil member: after NewMultiError(seed...) and
\* any Add and SafeAdd calls, the members are exactly the non-nil arguments in
\* call order (so a nil argument changes nothing).
C13_NilNeverAppended ==
    /\ merrors = SelectSeq(calls, NotNil)
    /\ \A i \in DOMAIN merrors : merrors[i] # NoErr

\* nil was passed between two errors, and the two errors are the members.
C13_Witness ==
    /\ Len(calls) = 3
    /\ calls[1] # NoErr
    /\ calls[2] = NoErr
    /\ calls[3] # NoErr
    /\ merrors = <<calls[1], calls[3]>>

\* C14: Err() returns nil exactly when the MultiError has no members (also
\* when it was built from nil seeds only), and otherwise the aggregator itself,
\* the same object, so that members added later are members of the returned
\* error too.
C14_ErrNilOrItself ==
    ret.op = "Err" =>
        /\ (ret.val = NoErr) <=> (Len(ret.at) = 0)
        /\ ret.val # NoErr => ret.val = MultiPtr

\* Err() returned the aggregator and a member was added afterwards.
C14_Witness ==
    /\ ret.op = "Err"
    /\ ret.val = MultiPtr
    /\ Len(merrors) > Len(ret.at)

\* The messages of the first n members, each after the first preceded by the
\* separator.
RECURSIVE Joined(_, _)
Joined(ms, n) ==
    IF n = 0 THEN ""
    ELSE IF n = 1 THEN ErrorOf(ms[1])
    ELSE Joined(ms, n - 1) \o " | " \o ErrorOf(ms[n])

\* The number of places of the text where the separator stands.
Separators(text) ==
    Cardinality({i \in 1..(Len(text) - 2) : SubSeq(text, i, i + 2) = " | "})

\* C15: MultiError.Error() is the empty string for an empty aggregator and
\* otherwise the members' messages in insertion order joined by " | ": n
\* members give n-1 separators, none leading, none trailing.
C15_ErrorJoinsMessages ==
    ret.op = "Error" =>
        /\ ret.val = Joined(ret.at, Len(ret.at))
        /\ Len(ret.at) = 0 => ret.val = ""
        /\ Len(ret.at) > 0 => Separators(ret.val) = Len(ret.at) - 1

\* NewMultiError(error1, error2).Error() gave "error 1 | error 2".
C15_Witness ==
    /\ ret.op = "Error"
    /\ ret.at = <<Error1, Error2>>
    /\ ret.val = "error 1 | error 2"

\* C16: Is(m, t) is true if and only if t is identity-equal to a member of m.
C16_IsIffMember ==
    ret.op = "Is" =>
        (ret.val <=> \E i \in DOMAIN ret.at : ret.at[i] = ret.arg)

\* The first error of the requested type in the chain of err, nil if there is
\* none.
RECURSIVE FirstOfType(_, _)
FirstOfType(err, type) ==
    IF err = NoErr THEN NoErr
    ELSE IF err.kind = type THEN err
    ELSE IF err.kind \in {"Error", "wrapError"} THEN FirstOfType(err.cause, type)
    ELSE NoErr

C18_AsFindsAnyMember ==
    ret.op = "As" =>
        LET hits == {i \in DOMAIN ret.at : FirstOfType(ret.at[i], "Error") # NoErr}
        IN  /\ ret.val.ok <=> hits # {}
            /\ hits # {} =>
                  \E i \in hits : ret.val.target = FirstOfType(ret.at[i], "Error")

\* ======================================================= error chains
\* fmt.Sprintf for a format made of literal pieces and %d verbs: every verb
\* is replaced by the decimal text of the next argument.
RECURSIVE Sprintf(_, _)
Sprintf(format, args) ==
    IF format = <<>> THEN ""
    ELSE IF Head(format) = "%d"
         THEN ToString(Head(args)) \o Sprintf(Tail(format), Tail(args))
         ELSE Head(format) \o Sprintf(Tail(format), args)

\* Wrapf(cause, format, args...): Wrap(cause, fmt.Sprintf(format, args...))
Wrapf(id, cause, format, args) == Wrap(id, cause, Sprintf(format, args), <<>>)

\* Errorf(format, args...): Wrap(nil, fmt.Sprintf(format, args...))
Errorf(id, format, args) == Wrap(id, NoErr, Sprintf(format, args), <<>>)

\* Faulty variant: Cause returns the error it was given.
CauseStopsAtOnce(err) == TRUE

\* Cause, the two breaks of the loop: err is no causer, or its Unwrap()
\* gives nil.
CauseStops(err) == ~HasUnwrap(err) \/ UnwrapOf(err) = NoErr

\* Cause(err): follow Unwrap() until the loop breaks, return the error reached.
RECURSIVE Cause(_)
Cause(err) ==
    IF err = NoErr THEN err
    ELSE IF CauseStops(err) THEN err
    ELSE Cause(UnwrapOf(err))

\* The messages and the format of the tests.
Messages == {"some message", "wrapper"}
Format == <<"some message id: ", "%d">>

\* The number of errors in the chain of err.
RECURSIVE Depth(_)
Depth(err) ==
    IF err = NoErr THEN 0
    ELSE IF err.kind \in {"Error", "wrapError"} THEN 1 + Depth(err.cause)
    ELSE 1

\* The client has no error yet.
InitChain ==
    /\ WgIdle
    /\ LibIdle

\* cur := stdErrors.New("cause"), the foreign error a chain starts from.
StdNewCall ==
    /\ cur = NoErr
    /\ cur' = ErrorString(1, "cause")
    /\ UNCHANGED wgVars
    /\ UNCHANGED <<merrors, mx, ppc, parg, pbuf, opc, oseen, calls, ret>>

\* cur := New(msg)
NewCall(msg) ==
    /\ cur = NoErr
    /\ cur' = New(1, msg, <<>>)
    /\ UNCHANGED wgVars
    /\ UNCHANGED <<merrors, mx, ppc, parg, pbuf, opc, oseen, calls, ret>>

\* cur := Errorf(format, 10)
ErrorfCall ==
    /\ cur = NoErr
    /\ cur' = Errorf(1, Format, <<10>>)
    /\ UNCHANGED wgVars
    /\ UNCHANGED <<merrors, mx, ppc, parg, pbuf, opc, oseen, calls, ret>>

\* cur = Wrap(cur, msg); cur may still be nil.
WrapCall(msg) ==
    /\ Depth(cur) < MaxDepth
    /\ cur' = Wrap(Depth(cur) + 1, cur, msg, <<>>)
    /\ UNCHANGED wgVars
    /\ UNCHANGED <<merrors, mx, ppc, parg, pbuf, opc, oseen, calls, ret>>

\* cur = Wrapf(cur, format, 10); cur may still be nil.
WrapfCall ==
    /\ Depth(cur) < MaxDepth
    /\ cur' = Wrapf(Depth(cur) + 1, cur, Format, <<10>>)
    /\ UNCHANGED wgVars
    /\ UNCHANGED <<merrors, mx, ppc, parg, pbuf, opc, oseen, calls, ret>>

\* cur = fmt.Errorf("msg: %w", cur)
FmtErrorfCall ==
    /\ cur # NoErr
    /\ Depth(cur) < MaxDepth
    /\ cur' = WrapError(Depth(cur) + 1, "msg: " \o ErrorOf(cur), cur)
    /\ UNCHANGED wgVars
    /\ UNCHANGED <<merrors, mx, ppc, parg, pbuf, opc, oseen, calls, ret>>

\* cur.Error()
ChainErrorCall ==
    /\ cur # NoErr
    /\ ret' = [op |-> "chain.Error", arg |-> cur, val |-> ErrorOf(cur)]
    /\ UNCHANGED wgVars
    /\ UNCHANGED <<merrors, mx, ppc, parg, pbuf, opc, oseen, calls, cur>>

\* Cause(cur)
CauseCall ==
    /\ ret' = [op |-> "Cause", arg |-> cur, val |-> Cause(cur)]
    /\ UNCHANGED wgVars
    /\ UNCHANGED <<merrors, mx, ppc, parg, pbuf, opc, oseen, calls, cur>>

NextChain ==
    \/ StdNewCall
    \/ \E msg \in Messages : NewCall(msg)
    \/ ErrorfCall
    \/ \E msg \in Messages : WrapCall(msg)
    \/ WrapfCall
    \/ FmtErrorfCall
    \/ ChainErrorCall
    \/ CauseCall

SpecChain == InitChain /\ [][NextChain]_vars

\* The errors of the chain of err, outermost first.
RECURSIVE Nodes(_)
Nodes(err) ==
    IF err = NoErr THEN <<>>
    ELSE IF err.kind \in {"Error", "wrapError"} THEN <<err>> \o Nodes(err.cause)
    ELSE <<err>>

\* The messages m1..mn of a chain that starts with contextual errors: the
\* message of each contextual error, then the whole text of the first foreign
\* error, if there is one.
RECURSIVE ChainMessages(_)
ChainMessages(err) ==
    IF err = NoErr THEN <<>>
    ELSE IF err.kind = "Error" THEN <<err.msg>> \o ChainMessages(err.cause)
    ELSE <<err.msg>>

\* m1: m2: ... : mn
RECURSIVE Rendered(_)
Rendered(msgs) ==
    IF Len(msgs) = 0 THEN ""
    ELSE IF Len(msgs) = 1 THEN msgs[1]
    ELSE Rendered(SubSeq(msgs, 1, Len(msgs) - 1)) \o ": " \o msgs[Len(msgs)]

\* C19: Error() of a contextual error built by New, Wrap, Wrapf or Errorf is
\* its message alone when it has no cause (Wrap(nil, msg) is like New(msg)),
\* and otherwise the messages of the whole chain joined by ": ".
C19_ErrorRendersTheChain ==
    (ret.op = "chain.Error" /\ ret.arg.kind = "Error") =>
        /\ ret.arg.cause = NoErr => ret.val = ret.arg.msg
        /\ ret.arg.cause # NoErr =>
              ret.val = ret.arg.msg \o ": " \o Rendered(ChainMessages(ret.arg.cause))
        /\ ret.val = Rendered(ChainMessages(ret.arg))
        /\ Wrap(1, NoErr, ret.arg.msg, <<>>) = New(1, ret.arg.msg, <<>>)

\* Wrap(Wrapf(stdErrors.New("cause"), format, 10), "wrapper").Error() gave the
\* three messages.
C19_Witness ==
    /\ ret.op = "chain.Error"
    /\ ret.arg = Wrap(3, Wrapf(2, ErrorString(1, "cause"), Format, <<10>>),
                      "wrapper", <<>>)
    /\ ret.val = "wrapper: some message id: 10: cause"

Zero64 == <<0, 0, 0, 0>>

FieldTypeUnknown == "Unknown"
FieldTypeString == "String"
FieldTypeFloat64 == "Float64"
FieldTypeReflect == "Reflect"

\* Field{Key: key}, every other member has its zero value.
KeyField(key) ==
    [Key |-> key, Type |-> FieldTypeUnknown, Integer |-> Zero64, Str |-> "",
     Interface |-> "nil"]

\* String(key, val)
String(key, val) == [KeyField(key) EXCEPT !.Type = FieldTypeString, !.Str = val]

\* Reflect(key, val)
Reflect(key, val) ==
    [KeyField(key) EXCEPT !.Type = FieldTypeReflect, !.Interface = val]

\* Faulty variant: the sentinel does not carry the key it was asked for.
nilFieldNoKey(key) == Reflect("", "nil")

\* nilField(key): Reflect(key, nil)
nilField(key) == Reflect(key, "nil")

\* IsNilField(field)
IsNilField(field) ==
    IF field.Type # FieldTypeReflect THEN FALSE ELSE field.Interface = "nil"

\* The address of the Error a call allocates itself.
FreshId == 0

\* GetError(err): err when it is an *Error, else GetError of what
\* errors.Unwrap(err) gives when that is not nil, else a new Error made of
\* err.Error() and err, where err is the parameter of this innermost call.
RECURSIVE GetError(_)
GetError(err) ==
    IF err.kind = "Error" THEN err
    ELSE IF HasUnwrap(err) /\ UnwrapOf(err) # NoErr THEN GetError(UnwrapOf(err))
    ELSE [kind |-> "Error", id |-> FreshId, msg |-> ErrorOf(err), cause |-> err,
          fields |-> <<>>]

\* append(customError.fields, fields...)
AppendFields(own, fields) == own \o fields

\* The chain err after the Error at address id was given the fields: the
\* assignment customError.fields = ... goes through the pointer.
RECURSIVE Assigned(_, _, _)
Assigned(err, id, fields) ==
    IF err = NoErr \/ err.kind = "errorString" THEN err
    ELSE IF err.kind = "Error" /\ err.id = id
         THEN [err EXCEPT !.fields = fields]
    ELSE [err EXCEPT !.cause = Assigned(err.cause, id, fields)]

\* AddFields(err, fields...): the Error GetError(err) gives, with the fields
\* appended to its own.
AddFields(err, fields) ==
    [GetError(err) EXCEPT !.fields = AppendFields(@, fields)]

\* The fields the tests attach, and one more that has the key of field2.
field1 == KeyField("field1")
field2 == KeyField("field2")
field3 == KeyField("field3")
shadow == String("field2", "outer")
FieldPool == {field1, field2, field3, shadow}
FieldArgs == {<<>>} \cup {<<f>> : f \in FieldPool}
Keys == {"field1", "field2", "field4"}

\* A walk of the chain has not returned.
Walking == ret.op \in {"GetChainFields", "FindFieldInChain"} /\ ret.pc = "loop"

\* The client has no error yet.
InitFields ==
    /\ WgIdle
    /\ LibIdle

\* cur := stdErrors.New("cause")
StdNewLeaf ==
    /\ cur = NoErr
    /\ ret.op = "none"
    /\ cur' = ErrorString(1, "cause")
    /\ UNCHANGED wgVars
    /\ UNCHANGED <<merrors, mx, ppc, parg, pbuf, opc, oseen, calls, ret>>

\* cur := New(msg, fields...)
NewWithFields(fields) ==
    /\ cur = NoErr
    /\ ret.op = "none"
    /\ cur' = New(1, "some message", fields)
    /\ UNCHANGED wgVars
    /\ UNCHANGED <<merrors, mx, ppc, parg, pbuf, opc, oseen, calls, ret>>

\* cur = Wrap(cur, msg, fields...)
WrapWithFields(fields) ==
    /\ cur # NoErr
    /\ ret.op = "none"
    /\ Depth(cur) < MaxDepth
    /\ cur' = Wrap(Depth(cur) + 1, cur, "some message", fields)
    /\ UNCHANGED wgVars
    /\ UNCHANGED <<merrors, mx, ppc, parg, pbuf, opc, oseen, calls, ret>>

\* cur = fmt.Errorf("msg: %w", cur)
FmtErrorfWrap ==
    /\ cur # NoErr
    /\ ret.op = "none"
    /\ Depth(cur) < MaxDepth
    /\ cur' = WrapError(Depth(cur) + 1, "msg: " \o ErrorOf(cur), cur)
    /\ UNCHANGED wgVars
    /\ UNCHANGED <<merrors, mx, ppc, parg, pbuf, opc, oseen, calls, ret>>

\* GetError(cur)
GetErrorCall ==
    /\ cur # NoErr
    /\ ~Walking
    /\ ret' = [op |-> "GetError", arg |-> cur, val |-> GetError(cur)]
    /\ UNCHANGED wgVars
    /\ UNCHANGED <<merrors, mx, ppc, parg, pbuf, opc, oseen, calls, cur>>

\* AddFields(cur, fields...), once: the Error it returns is changed in place,
\* so the chain the client holds has the new fields too.
AddFieldsCall(fields) ==
    /\ cur # NoErr
    /\ ~Walking
    /\ calls = <<>>
    /\ calls' = <<fields>>
    /\ LET customError == AddFields(cur, fields)
       IN /\ ret' = [op |-> "AddFields", arg |-> cur, fields |-> fields,
                     val |-> customError]
          /\ cur' = Assigned(cur, customError.id, customError.fields)
    /\ UNCHANGED wgVars
    /\ UNCHANGED <<merrors, mx, ppc, parg, pbuf, opc, oseen>>

\* Faulty variant: the fields of a node are put before those gathered so far.
ChainFieldsPrepend(fields, own) == own \o fields

\* fields = append(fields, eErr.fields...)
ChainFieldsAppend(fields, own) == fields \o own

\* One more turn of a walk is looked at only while the walk has made no more
\* turns than the chain has errors: the turn after that shows a repetition.
MayTurn == Len(ret.visited) <= Depth(ret.arg)

\* GetChainFields(cur), up to the loop: ret.err is the variable err of the
\* loop, ret.visited the addresses err had at the head of each turn.
ChainFieldsCall ==
    /\ cur # NoErr
    /\ ~Walking
    /\ ret' = [op |-> "GetChainFields", arg |-> cur, key |-> "", pc |-> "loop",
               err |-> cur, fields |-> <<>>, visited |-> <<>>, val |-> <<>>]
    /\ UNCHANGED wgVars
    /\ UNCHANGED <<merrors, mx, ppc, parg, pbuf, opc, oseen, calls, cur>>

\* One turn of the loop of GetChainFields: the fields of GetError(err) are
\* appended; the loop breaks when that Error has no cause, else err becomes
\* its cause.
ChainFieldsTurn ==
    /\ ret.op = "GetChainFields"
    /\ ret.pc = "loop"
    /\ MayTurn
    /\ LET eErr == GetError(ret.err)
           fields == ChainFieldsAppend(ret.fields, eErr.fields)
       IN ret' = [ret EXCEPT !.visited = Append(@, ret.err.id),
                             !.fields = fields,
                             !.pc = IF eErr.cause = NoErr THEN "returned" ELSE "loop",
                             !.err = IF eErr.cause = NoErr THEN @ ELSE eErr.cause,
                             !.val = IF eErr.cause = NoErr THEN fields ELSE @]
    /\ UNCHANGED wgVars
    /\ UNCHANGED <<merrors, mx, ppc, parg, pbuf, opc, oseen, calls, cur>>

\* The first field of fields that has the key, nilField(key) when none has.
RECURSIVE FirstWithKey(_, _)
FirstWithKey(fields, key) ==
    IF fields = <<>> THEN nilField(key)
    ELSE IF Head(fields).Key = key THEN Head(fields)
    ELSE FirstWithKey(Tail(fields), key)

HasKey(fields, key) == \E i \in DOMAIN fields : fields[i].Key = key

\* FindFieldInChain(key, cur), up to the loop.
FindFieldCall(key) ==
    /\ cur # NoErr
    /\ ~Walking
    /\ ret' = [op |-> "FindFieldInChain", arg |-> cur, key |-> key, pc |-> "loop",
               err |-> cur, fields |-> <<>>, visited |-> <<>>, val |-> nilField(key)]
    /\ UNCHANGED wgVars
    /\ UNCHANGED <<merrors, mx, ppc, parg, pbuf, opc, oseen, calls, cur>>

\* One turn of the loop of FindFieldInChain: the first field of GetError(err)
\* with the key is returned; without one the loop breaks when that Error has
\* no cause, and nilField(key) is returned, else err becomes its cause.
FindFieldTurn ==
    /\ ret.op = "FindFieldInChain"
    /\ ret.pc = "loop"
    /\ MayTurn
    /\ LET eErr == GetError(ret.err)
           found == HasKey(eErr.fields, ret.key)
           done == found \/ eErr.cause = NoErr
       IN ret' = [ret EXCEPT !.visited = Append(@, ret.err.id),
                             !.pc = IF done THEN "returned" ELSE "loop",
                             !.err = IF done THEN @ ELSE eErr.cause,
                             !.val = IF found THEN FirstWithKey(eErr.fields, ret.key)
                                     ELSE nilField(ret.key)]
    /\ UNCHANGED wgVars
    /\ UNCHANGED <<merrors, mx, ppc, parg, pbuf, opc, oseen, calls, cur>>

NextFields ==
    \/ StdNewLeaf
    \/ \E fields \in FieldArgs : NewWithFields(fields)
    \/ \E fields \in FieldArgs : WrapWithFields(fields)
    \/ FmtErrorfWrap
    \/ GetErrorCall
    \/ \E fields \in {<<>>, <<field3>>} : AddFieldsCall(fields)
    \/ ChainFieldsCall
    \/ ChainFieldsTurn
    \/ \E key \in Keys : FindFieldCall(key)
    \/ FindFieldTurn

SpecFields == InitFields /\ [][NextFields]_vars

\* The first contextual error of a sequence of errors, NoErr without one.
RECURSIVE FirstContextual(_)
FirstContextual(nodes) ==
    IF nodes = <<>> THEN NoErr
    ELSE IF Head(nodes).kind = "Error" THEN Head(nodes)
    ELSE FirstContextual(Tail(nodes))

\* C21: GetError(err) for a non-nil err is err itself when err is a
\* contextual error, otherwise the first contextual error of its chain, and
\* without one a new contextual leaf with the message err.Error() and the
\* cause err.
C21_GetErrorThreeCases ==
    ret.op = "GetError" =>
        LET first == FirstContextual(Nodes(ret.arg))
        IN /\ ret.arg.kind = "Error" => ret.val = ret.arg
           /\ first # NoErr => ret.val = first
           /\ first = NoErr =>
                 /\ ret.val.kind = "Error"
                 /\ ret.val.id = FreshId
                 /\ ret.val.msg = ErrorOf(ret.arg)
                 /\ ret.val.cause = ret.arg
                 /\ ret.val.fields = <<>>

\* err is one of the errors of the chain of from: the same kind of value at
\* the same address.
Reachable(err, from) ==
    \E i \in DOMAIN Nodes(from) :
        Nodes(from)[i].kind = err.kind /\ Nodes(from)[i].id = err.id

\* C22: AddFields never loses the original error: the error it returns is err
\* itself or has err in its unwrap chain; a foreign err that wraps nothing is
\* left as it was and becomes the cause of a new contextual error with the
\* message err.Error() and exactly the given fields.
C22_AddFieldsKeepsErr ==
    ret.op = "AddFields" =>
        /\ Reachable(ret.arg, ret.val)
        /\ ret.arg.kind = "errorString" =>
              /\ ret.val = Wrap(FreshId, ret.arg, ErrorOf(ret.arg), ret.fields)
              /\ cur = ret.arg

\* The fields the contextual errors of a chain were given, outermost error
\* first; a foreign error has none.
RECURSIVE ChainFields(_)
ChainFields(nodes) ==
    IF nodes = <<>> THEN <<>>
    ELSE (IF Head(nodes).kind = "Error" THEN Head(nodes).fields ELSE <<>>)
         \o ChainFields(Tail(nodes))

\* C23: when GetChainFields(err) returns, it returns the fields of the errors
\* of the chain from the outermost to the innermost, each error's fields in
\* the order they were attached.
C23_ChainFieldsOuterToInner ==
    (ret.op = "GetChainFields" /\ ret.pc = "returned") =>
        ret.val = ChainFields(Nodes(ret.arg))

\* err4 of TestGetChainFields: three wraps with one field each under a wrap
\* without fields gave [field3, field2, field1].
C23_Witness ==
    /\ ret.op = "GetChainFields"
    /\ ret.pc = "returned"
    /\ ret.arg = Wrap(4, Wrap(3, Wrap(2, New(1, "some message", <<field1>>),
                                      "some message", <<field2>>),
                              "some message", <<field3>>),
                      "some message", <<>>)
    /\ ret.val = <<field3, field2, field1>>

\* C24: when FindFieldInChain(key, err) returns, it returns the first field
\* with the key met from the outermost error to the innermost, and without
\* such a field the nil field of the key: the key asked for, the type Reflect,
\* no payload, so that IsNilField holds.
C24_FindFieldOutermostOrNil ==
    (ret.op = "FindFieldInChain" /\ ret.pc = "returned") =>
        LET all == ChainFields(Nodes(ret.arg))
            hits == {i \in DOMAIN all : all[i].Key = ret.key}
        IN /\ hits # {} =>
                 /\ \E i \in hits : /\ \A j \in hits : i <= j
                                    /\ ret.val = all[i]
                 /\ ~IsNilField(ret.val)
           /\ hits = {} =>
                 /\ ret.val.Key = ret.key
                 /\ ret.val.Type = FieldTypeReflect
                 /\ ret.val.Interface = "nil"
                 /\ IsNilField(ret.val)

\* The key field2 is attached at two depths, with different values: the outer
\* field was returned.
C24_Witness ==
    /\ ret.op = "FindFieldInChain"
    /\ ret.pc = "returned"
    /\ ret.key = "field2"
    /\ ret.arg = Wrap(3, Wrap(2, New(1, "some message", <<field1>>),
                              "some message", <<field2>>),
                      "some message", <<shadow>>)
    /\ ret.val = shadow

\* C28: the chain walks terminate: GetChainFields and FindFieldInChain visit
\* each error of a finite chain at most once, so the variable err of their
\* loop never has the same address at the head of two turns, and the walk
\* makes no more turns than the chain has errors.
C28_WalkVisitsOnce ==
    ret.op \in {"GetChainFields", "FindFieldInChain"} =>
        /\ \A i, j \in DOMAIN ret.visited :
              i # j => ret.visited[i] # ret.visited[j]
        /\ Len(ret.visited) <= Depth(ret.arg)

\* ======================================================= values of fields
\* A float64 is its 64 bits, a float32 its 32 bits, both as 16-bit words, the
\* most significant first.
Float64Of(w3, w2, w1, w0) == [type |-> "float64", bits |-> <<w3, w2, w1, w0>>]

\* The words the sample numbers are made of: those of 3.14, which is
\* 0x40091EB851EB851F, and 0x3FF0.
FloatWords == {16368, 16393, 7864, 20971, 34079}
Floats == {Float64Of(w3, w2, w1, w0) : w3, w2, w1, w0 \in FloatWords}

\* math.Float64bits(val): the 64 bits of val as a uint64.
Float64bits(val) == val.bits

\* int64(u) of a uint64: the same 64 bits.
Int64Of(u) == u

\* uint32(i) of an int64: its low 32 bits.
Uint32Of(i) == <<i[3], i[4]>>

\* math.Float32frombits(b): the float32 with the bits b.
Float32frombits(b) == [type |-> "float32", bits |-> b]

\* math.Float64frombits(b): the float64 with the bits b.
Float64frombits(b) == [type |-> "float64", bits |-> b]

\* Float64(key, val)
Float64(key, val) ==
    [KeyField(key) EXCEPT !.Type = FieldTypeFloat64,
                          !.Integer = Int64Of(Float64bits(val))]

\* f.Value(): the string of a String field, for a Float64 field the float32
\* made of the low 32 bits of the integer slot, else the payload.
Value(f) ==
    CASE f.Type = FieldTypeString -> f.Str
      [] f.Type = FieldTypeFloat64 -> Float32frombits(Uint32Of(f.Integer))
      [] OTHER -> f.Interface

InitValue ==
    /\ WgIdle
    /\ LibIdle

\* field := Float64(key, x)
Float64Call(key, x) ==
    /\ ret.op = "none"
    /\ ret' = [op |-> "Float64", arg |-> x, val |-> Float64(key, x)]
    /\ UNCHANGED wgVars
    /\ UNCHANGED <<merrors, mx, ppc, parg, pbuf, opc, oseen, calls, cur>>

\* field.Value()
ValueCall ==
    /\ ret.op = "Float64"
    /\ ret' = [op |-> "Value", arg |-> ret.arg, field |-> ret.val,
               val |-> Value(ret.val)]
    /\ UNCHANGED wgVars
    /\ UNCHANGED <<merrors, mx, ppc, parg, pbuf, opc, oseen, calls, cur>>

NextValue ==
    \/ \E key \in Keys, x \in Floats : Float64Call(key, x)
    \/ ValueCall

SpecValue == InitValue /\ [][NextValue]_vars

\* C25: Float64(key, x).Value() returns exactly x: the float64 made of the
\* same 64 bits that were stored in the integer slot.
C25_FloatRoundTrip ==
    ret.op = "Value" =>
        /\ ret.field.Integer = ret.arg.bits
        /\ ret.val = Float64frombits(ret.field.Integer)
        /\ ret.val = ret.arg

\* ======================================================= MultiError.Is, again
\* C26: Is(m, t) is the chain-aware match of every member: it is true exactly
\* when t is one of the errors of the unwrap chain of some member of m, so a
\* target inside the chain of the second member matches and a target that
\* only wraps a member does not.
C26_IsWalksEveryMember ==
    ret.op = "Is" =>
        (ret.val <=> \E i \in DOMAIN ret.at :
                         \E k \in DOMAIN Nodes(ret.at[i]) :
                             Nodes(ret.at[i])[k] = ret.arg)

\* ======================================================= Done, concurrently
\* C27: concurrent Done calls do not lose each other's errors: once every
\* Done call that was made has returned, the owned MultiError has one member
\* for each call that passed a non-nil error.
C27_ConcurrentDoneKeepsAll ==
    (\A t \in Tasks : DoneCalled(t) => DoneReturned(t)) =>
        \A e \in TaskErrs :
            Count(errors, e) =
                Cardinality({t \in Tasks : DoneReturned(t) /\ terr[t] = e})

\* ======================================================= Do, under a limit
\* The client of the README: a WaitGroup with a task limit, MaxTasks calls of
\* Do from the main goroutine, then Wait.
InitLimit == Init /\ options.TaskLimit >= 1

WaitAfterDo(w) == next > MaxTasks /\ WaitCall(w)

NextLimit ==
    \/ DoAcquire
    \/ DoDispatch
    \/ \E t \in Tasks : DoneWg(t)
    \/ \E t \in Tasks : DoneStop(t)
    \/ \E t \in Tasks : DoneAddRead(t)
    \/ \E t \in Tasks : DoneAddWrite(t)
    \/ \E t \in Tasks : DoRelease(t)
    \/ \E w \in Waiters : WaitAfterDo(w)
    \/ \E w \in Waiters : WaitLen(w)
    \/ \E w \in Waiters : WaitStop(w)

\* The Go scheduler lets every goroutine that can run its next statement run
\* it: main in Do, each task (its body returns, then Done and the receive
\* from the gate), each caller of Wait.
FairnessLimit ==
    /\ WF_vars(DoAcquire \/ DoDispatch)
    /\ \A t \in Tasks :
          WF_vars(DoneWg(t) \/ DoneStop(t) \/ DoneAddRead(t) \/ DoneAddWrite(t)
                  \/ DoRelease(t))
    /\ \A w \in Waiters : WF_vars(WaitAfterDo(w) \/ WaitLen(w) \/ WaitStop(w))

SpecLimit == InitLimit /\ [][NextLimit]_vars /\ FairnessLimit

\* Task t gives its slot back in this step.
SlotReleased(t) == tslot[t] /\ ~tslot'[t]

\* Every Do call has returned, every task has made its Done call and given
\* its slot back, and every Wait has returned.
Completed ==
    /\ mpc = "launch"
    /\ next > MaxTasks
    /\ \A t \in Tasks : tpc[t] = "finished" /\ ~tslot[t]
    /\ \A w \in Waiters : Returned(w)

\* C29: under fair scheduling, with a task limit of at least 1: every Do call
\* gets its slot and returns, every slot taken is given back, once and after
\* the Done of its task has returned, every Wait returns, and the gate is
\* empty once all tasks have completed.
C29_GateLiveness ==
    /\ <>[]Completed
    /\ [][\A t \in Tasks :
             SlotReleased(t) => /\ DoneReturned(t)
                                /\ gch' = gch - 1
                                /\ tpc'[t] = "finished"]_vars
    /\ [](gch = Cardinality({t \in Tasks : tslot[t]}))
    /\ []((\A t \in Tasks : tpc[t] = "finished") => gch = 0)

\* With the limit 1 both tasks went through the gate one after the other, the
\* gate is empty again and Wait has returned.
C29_Witness ==
    /\ options.TaskLimit = 1
    /\ next > MaxTasks
    /\ \A t \in Tasks : tpc[t] = "finished" /\ ~tslot[t]
    /\ gch = 0
    /\ \A w \in Waiters : Returned(w)

\* ======================================================= the lock of MultiError
\* Goroutines call SafeAdd, SafeLen, Unwrap and Is on one MultiError m.  The
\* call of Is is kept in ret: its target, its position, the index of its loop.
IsCaller == MaxProducers + MaxObservers + 1

\* A contextual error whose cause is m itself.
Around == Wrap(6, MultiPtr, "wrapper", <<>>)

\* A contextual error around the error of the first producer.
AroundFirst == Wrap(7, ProducerErr(1), "wrapper", <<>>)

Targets == {ProducerErr(1), AroundFirst, Around}

\* Unwrap(): if len(m.errors) == 0 { return nil }, read without the lock.
UnwrapLen(o) ==
    /\ opc[o] = "idle"
    /\ opc' = [opc EXCEPT ![o] = IF Len(merrors) = 0 THEN "returned" ELSE "unwrap"]
    /\ UNCHANGED wgVars
    /\ UNCHANGED <<merrors, mx, ppc, parg, pbuf, oseen, calls, cur, ret>>

\* Unwrap(): m.mx.Lock()
UnwrapLock(o) ==
    /\ opc[o] = "unwrap"
    /\ MutexFree(mx)
    /\ mx' = MaxProducers + o
    /\ opc' = [opc EXCEPT ![o] = "unwrap_locked"]
    /\ UNCHANGED wgVars
    /\ UNCHANGED <<merrors, ppc, parg, pbuf, oseen, calls, cur, ret>>

\* Unwrap(): return m.errors[0], then the deferred m.mx.Unlock().
UnwrapReturn(o) ==
    /\ opc[o] = "unwrap_locked"
    /\ mx' = 0
    /\ opc' = [opc EXCEPT ![o] = "returned"]
    /\ UNCHANGED wgVars
    /\ UNCHANGED <<merrors, ppc, parg, pbuf, oseen, calls, cur, ret>>

\* m.Is(target): m.mx.Lock()
IsLock(target) ==
    /\ ret.op = "none"
    /\ MutexFree(mx)
    /\ mx' = IsCaller
    /\ ret' = [op |-> "Is", arg |-> target, pc |-> "scan", i |-> 1, val |-> FALSE]
    /\ UNCHANGED wgVars
    /\ UNCHANGED <<merrors, ppc, parg, pbuf, opc, oseen, calls, cur>>

\* The standard errors.Is(err, member) up to the first call that takes a
\* lock: "true" when the walk meets the member, "false" when the chain ends,
\* "lock" when the walk meets m, whose Is method it then calls.
RECURSIVE LockWalk(_, _)
LockWalk(err, member) ==
    IF err = member THEN "true"
    ELSE IF err.kind = "MultiError" THEN "lock"
    ELSE IF ~HasUnwrap(err) THEN "false"
    ELSE IF err.cause = NoErr THEN "false"
    ELSE LockWalk(err.cause, member)

\* m.Is(target), one turn of the loop: errors.Is(target, m.errors[i]).  When
\* the walk meets m it calls m.Is(m.errors[i]), which starts with
\* m.mx.Lock() and, once it has the lock, finds the member.
IsScan ==
    /\ ret.op = "Is"
    /\ ret.pc = "scan"
    /\ ret.i <= Len(merrors)
    /\ LET walk == LockWalk(ret.arg, merrors[ret.i])
       IN /\ walk = "lock" => MutexFree(mx)
          /\ ret' = IF walk = "false"
                    THEN [ret EXCEPT !.i = @ + 1]
                    ELSE [ret EXCEPT !.pc = "unlock", !.val = TRUE]
    /\ UNCHANGED wgVars
    /\ UNCHANGED <<merrors, mx, ppc, parg, pbuf, opc, oseen, calls, cur>>

\* m.Is(target): the loop is over, return false.
IsScanEnd ==
    /\ ret.op = "Is"
    /\ ret.pc = "scan"
    /\ ret.i > Len(merrors)
    /\ ret' = [ret EXCEPT !.pc = "unlock"]
    /\ UNCHANGED wgVars
    /\ UNCHANGED <<merrors, mx, ppc, parg, pbuf, opc, oseen, calls, cur>>

\* m.Is(target): the deferred m.mx.Unlock().
IsUnlock ==
    /\ ret.op = "Is"
    /\ ret.pc = "unlock"
    /\ mx' = 0
    /\ ret' = [ret EXCEPT !.pc = "returned"]
    /\ UNCHANGED wgVars
    /\ UNCHANGED <<merrors, ppc, parg, pbuf, opc, oseen, calls, cur>>

InitLock == WgIdle /\ LibIdle

NextLock ==
    \/ \E p \in Producers : SafeAddLock(p)
    \/ \E p \in Producers : SafeAddRead(p)
    \/ \E p \in Producers : SafeAddWrite(p)
    \/ \E p \in Producers : SafeAddUnlock(p)
    \/ \E o \in Observers : SafeLenLock(o)
    \/ \E o \in Observers : SafeLenReturn(o)
    \/ \E o \in Observers : UnwrapLen(o)
    \/ \E o \in Observers : UnwrapLock(o)
    \/ \E o \in Observers : UnwrapReturn(o)
    \/ \E target \in Targets : IsLock(target)
    \/ IsScan
    \/ IsScanEnd
    \/ IsUnlock

SpecLock == InitLock /\ [][NextLock]_vars

\* The next statement of the call that holds the lock.
HolderStep ==
    \/ \E p \in Producers : SafeAddRead(p) \/ SafeAddWrite(p) \/ SafeAddUnlock(p)
    \/ \E o \in Observers : SafeLenReturn(o) \/ UnwrapReturn(o)
    \/ IsScan
    \/ IsScanEnd
    \/ IsUnlock

\* C30: the lock of a MultiError is never a source of deadlock: the call of
\* SafeAdd, SafeLen, Unwrap or Is that holds the lock can always run its next
\* statement, so it releases the lock and returns; in particular Is does not
\* take the lock again while it holds it.
C30_LockHolderProceeds == mx # 0 => ENABLED HolderStep

====
